---- MODULE Spec2Model ----
(***************************************************************************)
(* Model of assets/javascript/script.js: the scroll/pointer smoothing, the *)
(* section and visibility model, the per-band uniform update of animate,   *)
(* the resize handler and the gradient of the fragment shader.             *)
(*                                                                         *)
(* Numbers.  The script computes in IEEE doubles (the shader in floats).   *)
(* The model computes in fixed point and rounds every product or quotient  *)
(* to the nearest representable value, as the floating-point unit does:    *)
(*   - uniform values, pointer coordinates, blend factors, colours:        *)
(*     1.0 is US units;                                                    *)
(*   - scroll offsets: one CSS pixel is SS units;                          *)
(*   - time: one second is TicksPerSecond ticks.                           *)
(* Like the doubles of the script, a smoothed value therefore stops moving *)
(* once the increment (target - value) * k rounds to nothing.              *)
(***************************************************************************)
EXTENDS Integers, FiniteSets, Sequences, TLC

\* ------------------------------------------------------------ resolution
US == 1000
SS == 2
TicksPerSecond == 10

\* ---------------------------------------------------------------- bounds
\* Inputs (events, non-zero clock deltas) arrive during the first MaxFrame
\* animation frames; afterwards the loop keeps running on the last samples.
MaxFrame == 1
\* The clock is followed up to MaxTime ticks.
MaxTime == 2
\* At most MaxResizes resize events are delivered in one run.
MaxResizes == 1
\* Invocations of animate() are counted round a cycle of FrameCycle.
FrameCycle == 4

\* ---------------------------------------------------------------- inputs
\* The windows the page is opened in or resized to: window.innerWidth,
\* window.innerHeight (CSS pixels) and window.devicePixelRatio.
WindowSamples == {<<200, 100, 1>>, <<120, 200, 3>>}
\* window.scrollY as read by the scroll listener, in CSS pixels.  A negative
\* offset is what an elastic overscroll at the top of the page reports.
ScrollSamples == {-30, 0, 290}
\* <<event.clientX, event.clientY>> of a mousemove: near the lower left
\* corner of the window, and to the right of it near the top.
PointerCorner == <<0, 90>>
PointerSamples == {PointerCorner, <<60, 20>>}
\* clock.getDelta(), in ticks.
DeltaSamples == {0, 1}

\* --------------------------------------------------------- numeric helpers
Abs(x) == IF x < 0 THEN -x ELSE x

Min(a, b) == IF a < b THEN a ELSE b

Max(a, b) == IF a > b THEN a ELSE b

\* a / b rounded to the nearest integer (b > 0), halves away from zero.
RDiv(a, b) == IF a >= 0 THEN (2 * a + b) \div (2 * b)
                        ELSE -((2 * (-a) + b) \div (2 * b))

\* JavaScript's % : the result has the sign of the dividend.
JsMod(a, b) == IF a >= 0 THEN a % b ELSE -((-a) % b)

\* Lerp with the sign of the difference slipped: value + (target + value) * k.
Lerp_SignSlip(value, target, num, den) == value + RDiv((target + value) * num, den)

\* value + (target - value) * (num / den)
Lerp(value, target, num, den) == value + RDiv((target - value) * num, den)

\* Math.PI, 2 * Math.PI, Math.PI / 2 and Math.PI / 4, in millionths.
PiMicro == 3141593

TwoPiMicro == 6283185

HalfPiMicro == 1570796

QuarterPiMicro == 785398

\* a * b for a and b in millionths (0 .. 1000000), in millionths; the product
\* is formed from the halves of the factors so that it stays within 32 bits.
MulMicro(a, b) ==
    LET ah == a \div 1000
        al == a % 1000
        bh == b \div 1000
        bl == b % 1000
        mid == ah * bl + al * bh
    IN  ah * bh + mid \div 1000 + RDiv((mid % 1000) * 1000 + al * bl, 1000000)

\* sin(r) for r in millionths of a radian, 0 <= r <= pi / 4, in millionths:
\* r * (1 - r^2/6 * (1 - r^2/20 * (1 - r^2/42 * (1 - r^2/72)))).
SinOctant(r) ==
    LET r2 == MulMicro(r, r)
        a == 1000000 - RDiv(r2, 72)
        b == 1000000 - RDiv(MulMicro(r2, a), 42)
        c == 1000000 - RDiv(MulMicro(r2, b), 20)
        d == 1000000 - RDiv(MulMicro(r2, c), 6)
    IN  MulMicro(r, d)

\* cos(r) for r in millionths of a radian, 0 <= r <= pi / 4, in millionths:
\* 1 - r^2/2 * (1 - r^2/12 * (1 - r^2/30 * (1 - r^2/56))).
CosOctant(r) ==
    LET r2 == MulMicro(r, r)
        a == 1000000 - RDiv(r2, 56)
        b == 1000000 - RDiv(MulMicro(r2, a), 30)
        c == 1000000 - RDiv(MulMicro(r2, b), 12)
    IN  1000000 - RDiv(MulMicro(r2, c), 2)

\* Math.sin(x) for x in thousandths of a radian (any sign, any size), in
\* millionths: the argument is reduced by whole periods of 2 pi = 6.283185307,
\* folded into the first quadrant, and the series is summed there.
SinMicro(x) ==
    LET ax == Abs(x)
        k == ax \div 6283
        r0 == (ax - k * 6283) * 1000 - k * 185 - RDiv(k * 307, 1000)
        r == IF r0 < 0 THEN r0 + TwoPiMicro ELSE r0
        lower == r > PiMicro
        r1 == IF lower THEN r - PiMicro ELSE r
        r2 == IF r1 > HalfPiMicro THEN PiMicro - r1 ELSE r1
        v == IF r2 <= QuarterPiMicro THEN SinOctant(r2) ELSE CosOctant(HalfPiMicro - r2)
        sv == IF lower THEN -v ELSE v
    IN  IF x < 0 THEN -sv ELSE sv

\* Math.sin(x) for x in thousandths of a radian, in thousandths.
SinMilli(x) == RDiv(SinMicro(x), 1000)

\* ------------------------------------------------- line configurations
section1Lines == [i \in 0 .. 13 |->
    [sectionIndex |-> 0,
     zDepth |-> -2000 + i * 300,
     speed |-> 80 + i * 3,
     opacity |-> 350 + (i % 3) * 50,
     colorIntensity |-> 800 + i * 10,
     amplitude |-> 400 + i * 20,
     frequency |-> 120 + i * 10,
     height |-> 2,
     verticalOffset |-> -6000 + i * 900,
     direction |-> 0,
     curveType |-> 0,
     phaseOffset |-> RDiv(i * PiMicro * 15, 100000)]]

section2Lines == [i \in 0 .. 12 |->
    [sectionIndex |-> 1,
     zDepth |-> -1800 + i * 300,
     speed |-> 120 + i * 4,
     opacity |-> 400 + (i % 3) * 50,
     colorIntensity |-> 850 + i * 10,
     amplitude |-> 600 + i * 30,
     frequency |-> 150 + i * 12,
     height |-> 2,
     verticalOffset |-> -5500 + i * 950,
     direction |-> 1000,
     curveType |-> 1000,
     phaseOffset |-> RDiv(i * PiMicro * 18, 100000)]]

section3Lines == [i \in 0 .. 12 |->
    [sectionIndex |-> 2,
     zDepth |-> -1500 + i * 300,
     speed |-> 140 + i * 5,
     opacity |-> 420 + (i % 3) * 50,
     colorIntensity |-> 900 + i * 10,
     amplitude |-> 700 + i * 35,
     frequency |-> 180 + i * 14,
     height |-> 2,
     verticalOffset |-> -5800 + i * 920,
     direction |-> 2000,
     curveType |-> 2000,
     phaseOffset |-> RDiv(i * PiMicro * 20, 100000)]]

\* const allLineConfigs = [...section1Lines, ...section2Lines, ...section3Lines]
allLineConfigs == [lineIndex \in 0 .. 39 |->
    IF lineIndex < 14 THEN section1Lines[lineIndex]
    ELSE IF lineIndex < 14 + 13 THEN section2Lines[lineIndex - 14]
    ELSE section3Lines[lineIndex - 14 - 13]]

Bands == DOMAIN allLineConfigs

\* configWithIndex = { ...lineConfig, lineIndex }: waveBands[lineIndex].lineConfig
waveBandLineConfig == [lineIndex \in Bands |->
    [lineIndex |-> lineIndex] @@ allLineConfigs[lineIndex]]

\* nextSectionConfigs.length
Len2 == Cardinality(DOMAIN section2Lines)

Len3 == Cardinality(DOMAIN section3Lines)

\* ------------------------------------------------------- section model
getCurrentSection(sY, vh) == Min(sY \div (vh * SS), 2)

\* getSectionVisibility with 1.25 typed for 0.25.
getSectionVisibility_Typo(lineSection, sY, vh) ==
    LET distance == Abs(getCurrentSection(sY, vh) - lineSection)
    IN  IF distance = 0 THEN US
        ELSE IF distance = 1 THEN US + US \div 4
        ELSE 0

\* getSectionVisibility with the two visible cases exchanged.
getSectionVisibility_Swapped(lineSection, sY, vh) ==
    LET distance == Abs(getCurrentSection(sY, vh) - lineSection)
    IN  IF distance = 0 THEN US \div 4
        ELSE IF distance = 1 THEN US
        ELSE 0

getSectionVisibility(lineSection, sY, vh) ==
    LET distance == Abs(getCurrentSection(sY, vh) - lineSection)
    IN  IF distance = 0 THEN US
        ELSE IF distance = 1 THEN US \div 4
        ELSE 0

smoothEase(t) ==
    IF 2 * t < US
    THEN RDiv(4 * t * t * t, US * US)
    ELSE US - RDiv((2 * US - 2 * t) * (2 * US - 2 * t) * (2 * US - 2 * t),
                   2 * US * US)

getSectionProgress(sY, vh) == RDiv(JsMod(sY, vh * SS) * US, vh * SS)

\* getInterpolationFactor with the section progress of a negative offset
\* wrapped into [0, 1), as a modulo that is never negative gives it.
getInterpolationFactor_FloorMod(sY, vh) ==
    LET sectionProgress == RDiv((sY % (vh * SS)) * US, vh * SS)
    IN  IF 10 * sectionProgress > 7 * US /\ getCurrentSection(sY, vh) < 2
        THEN smoothEase(RDiv((10 * sectionProgress - 7 * US) * US, 3 * US))
        ELSE 0

getInterpolationFactor(sY, vh) ==
    LET sectionProgress == getSectionProgress(sY, vh)
    IN  IF 10 * sectionProgress > 7 * US /\ getCurrentSection(sY, vh) < 2
        THEN smoothEase(RDiv((10 * sectionProgress - 7 * US) * US, 3 * US))
        ELSE 0

\* a + (b - a) * factor
Blend(a, b, factor) == a + RDiv((b - a) * factor, US)

\* a + (b - a) * factor * 0.5
BlendHalf(a, b, factor) == a + RDiv((b - a) * factor, 2 * US)

getInterpolatedParams(lineConfig, currentSection, interpolationFactor) ==
    IF interpolationFactor = 0
    THEN lineConfig
    ELSE LET nextSection == currentSection + 1
             nextConfig ==
                 IF nextSection = 1
                 THEN section2Lines[lineConfig.lineIndex % Len2]
                 ELSE section3Lines[lineConfig.lineIndex % Len3]
         IN  [lineConfig EXCEPT
                !.speed = Blend(lineConfig.speed, nextConfig.speed, interpolationFactor),
                !.amplitude = Blend(lineConfig.amplitude, nextConfig.amplitude, interpolationFactor),
                !.frequency = Blend(lineConfig.frequency, nextConfig.frequency, interpolationFactor),
                !.direction = Blend(lineConfig.direction, nextConfig.direction, interpolationFactor),
                !.curveType = Blend(lineConfig.curveType, nextConfig.curveType, interpolationFactor),
                !.opacity = BlendHalf(lineConfig.opacity, nextConfig.opacity, interpolationFactor)]

\* ------------------------------------------------------------- smoothing
\* Smoothing factors, in hundredths: 0.05, 0.02 and 0.08.
mouseLerp == 5

scrollSpeed == 2

visibilityLerp == 8

\* The pointer smoothed with the scroll's factor instead of its own.
updateMouse_ScrollFactor(m, target) ==
    [x |-> Lerp(m.x, target.x, scrollSpeed, 100),
     y |-> Lerp(m.y, target.y, scrollSpeed, 100)]

updateMouse(m, target) ==
    [x |-> Lerp(m.x, target.x, mouseLerp, 100),
     y |-> Lerp(m.y, target.y, mouseLerp, 100)]

updateScroll(sY, target) == Lerp(sY, target, scrollSpeed, 100)

\* The visibility snapped to its target instead of smoothed.
visibilityStep_Snap(currentVisibility, targetVisibility) == targetVisibility

\* uniforms.uVisibility.value += (targetVisibility - currentVisibility) * 0.08
visibilityStep(currentVisibility, targetVisibility) ==
    Lerp(currentVisibility, targetVisibility, visibilityLerp, 100)

\* 1.0 + scrollY * 0.00005, in units of 1 / UTimeDen.
UTimeDen == 20000 * SS

scrollInfluence(sY) == UTimeDen + sY

\* 3.5 + Math.sin(time * 0.15) * 0.4, in thousandths.
bloomStrengthAt(t) ==
    3500 + RDiv(SinMicro((t * 150) \div TicksPerSecond) * 400, 1000000)

\* bloomPass.strength at each value the clock takes in a run.
bloomStrengthByTime == [t \in 0 .. MaxTime |-> bloomStrengthAt(t)]

\* ------------------------------------------------------------- geometry
\* tan(fov / 2) for the 65 degree camera, in thousandths; camera.position.z.
TanHalfFov == 637

CameraZ == 8

\* (2.0 / innerHeight) * (cameraDistance * 2.0 * tan(fovRad / 2)), in 1 / US.
calculate2pxHeight(vh) == RDiv(2 * CameraZ * 2 * TanHalfFov, vh)

\* window.innerWidth / window.innerHeight, in 1 / US.
Aspect(w, h) == RDiv(w * US, h)

\* ------------------------------------------------------ fragment shader
\* mix with its two colours exchanged.
mix_Exchanged(a, b, t) == RDiv(b * (US - t) + a * t, US)

\* GLSL mix(a, b, t) = a * (1 - t) + b * t, on one colour channel.
mix(a, b, t) == RDiv(a * (US - t) + b * t, US)

mix3(a, b, t) == <<mix(a[1], b[1], t), mix(a[2], b[2], t), mix(a[3], b[3], t)>>

\* GLSL smoothstep(edge0, edge1, x).
smoothstep(edge0, edge1, x) ==
    LET t == Max(0, Min(US, RDiv((x - edge0) * US, edge1 - edge0)))
    IN  RDiv(t * t * (3 * US - 2 * t), US * US)

color1 == <<400, 550, 920>>

color2 == <<550, 400, 950>>

color3 == <<880, 350, 620>>

color4 == <<1000, 500, 320>>

\* vec3 smoothGradient(float t) of the fragment shader.
smoothGradient(t) ==
    LET t1 == smoothstep(0, 300, t)
        t2 == smoothstep(250, 550, t)
        t3 == smoothstep(500, 800, t)
        t4 == smoothstep(700, 1000, t)
        c1 == mix3(color1, color2, t1)
        c2 == mix3(c1, color3, t2)
        c3 == mix3(c2, color4, t3)
    IN  mix3(c3, mix3(color2, color3, US \div 2), RDiv(t4 * 25, 100))

\* ----------------------------------------------------------------- state
VARIABLES
    pc,                 \* "load" until the script's own animate() call, then "running"
    innerWidth,         \* window.innerWidth
    innerHeight,        \* window.innerHeight
    devicePixelRatio,   \* window.devicePixelRatio
    cameraAspect,       \* camera.aspect
    rendererSize,       \* what renderer.setSize was last given
    rendererPixelRatio, \* what renderer.setPixelRatio was last given
    composerSize,       \* what the composer was last sized to
    bloomSize,          \* the bloom pass resolution
    bloomStrength,      \* bloomPass.strength
    mouse,              \* the smoothed pointer
    targetMouse,        \* the latest pointer sample
    scrollY,            \* the smoothed scroll offset
    targetScrollY,      \* the latest scroll sample
    time,               \* the animation clock
    uniforms,           \* waveBands[i].material.uniforms
    meshGeometry,       \* waveBands[i].mesh.geometry, as a geometry id
    geometryHeight,     \* the height each band's geometry was built with
    allocated,          \* how many geometries were ever constructed
    disposed,           \* the ids of the geometries dispose() was called on
    pendingFrames,      \* callbacks requestAnimationFrame holds
    rendered,           \* what the last composer.render() drew with
    frame,              \* animation frames run so far (counted up to MaxFrame)
    frameCount,         \* invocations of animate() so far (counted round FrameCycle)
    scrollEvents,       \* window.scrollY at the last scroll events since the last frame
    pointerEvents,      \* <<clientX, clientY>> of the last mousemoves since the last frame
    resizes,            \* resize events delivered so far
    shaded              \* the last gradient colour the fragment shader computed

vars == <<pc, innerWidth, innerHeight, devicePixelRatio, cameraAspect,
          rendererSize, rendererPixelRatio, composerSize, bloomSize,
          bloomStrength, mouse, targetMouse, scrollY, targetScrollY, time,
          uniforms, meshGeometry, geometryHeight, allocated, disposed,
          pendingFrames, rendered, frame, frameCount, scrollEvents,
          pointerEvents, resizes, shaded>>

windowVars == <<innerWidth, innerHeight, devicePixelRatio>>

surfaceVars == <<cameraAspect, rendererSize, rendererPixelRatio, composerSize,
                 bloomSize>>

geometryVars == <<meshGeometry, geometryHeight, allocated, disposed>>

frameVars == <<bloomStrength, mouse, scrollY, time, uniforms, pendingFrames,
               rendered, frame, frameCount>>

eventVars == <<scrollEvents, pointerEvents>>

\* The record of the events of one kind since the last frame, after one more
\* with this sample: the last sample delivered and, before it, the last one
\* that differed from it.
Delivered(events, sample) ==
    IF events = << >> THEN <<sample>>
    ELSE IF events[Len(events)] = sample THEN events
    ELSE <<events[Len(events)], sample>>

\* The uniforms a band's ShaderMaterial is constructed with: those animate()
\* writes.  (uNoiseScale, uNoiseStrength, uPhase and uVerticalOffset are set
\* here once and never written again.)
initialUniforms(lineIndex) ==
    LET lineConfig == allLineConfigs[lineIndex]
    IN  [uTime |-> 0,
         uSpeed |-> lineConfig.speed,
         uAmplitude |-> lineConfig.amplitude,
         uFrequency |-> lineConfig.frequency,
         uOpacity |-> lineConfig.opacity,
         uColorIntensity |-> lineConfig.colorIntensity,
         uMouse |-> [x |-> 0, y |-> 0],
         uDirection |-> lineConfig.direction,
         uCurveType |-> lineConfig.curveType,
         uVisibility |-> US]

\* The pixel ratio the renderer is constructed with, and the one a resize sets.
startupPixelRatio(dpr) == Min(dpr, 10)

resizePixelRatio(dpr) == Min(dpr, 2)

\* The script has run up to, and not including, its final animate() call.
Init ==
    /\ pc = "load"
    /\ \E win \in WindowSamples :
          /\ innerWidth = win[1]
          /\ innerHeight = win[2]
          /\ devicePixelRatio = win[3]
          /\ cameraAspect = Aspect(win[1], win[2])
          /\ rendererSize = <<win[1], win[2]>>
          /\ rendererPixelRatio = startupPixelRatio(win[3])
          /\ composerSize = <<win[1], win[2]>>
          /\ bloomSize = <<win[1], win[2]>>
          /\ geometryHeight = [b \in Bands |-> calculate2pxHeight(win[2])]
    /\ bloomStrength = 6500
    /\ mouse = [x |-> 0, y |-> 0]
    /\ targetMouse = [x |-> 0, y |-> 0]
    /\ scrollY = 0
    /\ targetScrollY = 0
    /\ time = 0
    /\ uniforms = [b \in Bands |-> initialUniforms(b)]
    /\ meshGeometry = [b \in Bands |-> b + 1]
    /\ allocated = Cardinality(Bands)
    /\ disposed = {}
    /\ pendingFrames = 0
    /\ rendered = [drawn |-> FALSE, viewport |-> <<0, 0>>, renderer |-> <<0, 0>>,
                   composer |-> <<0, 0>>, bloom |-> <<0, 0>>, aspect |-> 0]
    /\ frame = 0
    /\ frameCount = 0
    /\ scrollEvents = << >>
    /\ pointerEvents = << >>
    /\ resizes = 0
    /\ shaded = [done |-> FALSE, vProgress |-> 0, color |-> <<0, 0, 0>>]

\* ------------------------------------------------------------ listeners
InputOpen == pc = "running" /\ frame < MaxFrame

\* window.addEventListener('mousemove', ...)
MouseMove(clientX, clientY) ==
    /\ InputOpen
    /\ targetMouse' = [x |-> RDiv(clientX * US, innerWidth) * 2 - US,
                       y |-> -(RDiv(clientY * US, innerHeight) * 2) + US]
    /\ pointerEvents' = Delivered(pointerEvents, <<clientX, clientY>>)
    /\ UNCHANGED <<pc, windowVars, surfaceVars, geometryVars, frameVars,
                   targetScrollY, scrollEvents, resizes, shaded>>

\* The scroll listener adding the sample to the target instead of storing it.
Scroll_Accumulate(windowScrollY) ==
    /\ pc = "running" /\ frame < MaxFrame
    /\ targetScrollY' = targetScrollY + windowScrollY * SS
    /\ scrollEvents' = Delivered(scrollEvents, windowScrollY)
    /\ UNCHANGED <<pc, windowVars, surfaceVars, geometryVars, frameVars,
                   targetMouse, pointerEvents, resizes, shaded>>

\* window.addEventListener('scroll', ...)
Scroll(windowScrollY) ==
    /\ InputOpen
    /\ targetScrollY' = windowScrollY * SS
    /\ scrollEvents' = Delivered(scrollEvents, windowScrollY)
    /\ UNCHANGED <<pc, windowVars, surfaceVars, geometryVars, frameVars,
                   targetMouse, pointerEvents, resizes, shaded>>

\* handleResize without its bloomPass.setSize call.
handleResize_NoBloom(w, h, dpr) ==
    /\ pc = "running" /\ frame < MaxFrame
    /\ resizes < MaxResizes
    /\ resizes' = resizes + 1
    /\ innerWidth' = w
    /\ innerHeight' = h
    /\ devicePixelRatio' = dpr
    /\ cameraAspect' = RDiv(w * US, h)
    /\ rendererSize' = <<w, h>>
    /\ rendererPixelRatio' = Min(dpr, 2)
    /\ composerSize' = <<w, h>>
    /\ bloomSize' = bloomSize
    /\ disposed' = disposed \cup {meshGeometry[b] : b \in Bands}
    /\ meshGeometry' = [b \in Bands |-> allocated + 1 + b]
    /\ geometryHeight' = [b \in Bands |-> calculate2pxHeight(h)]
    /\ allocated' = allocated + Cardinality(Bands)
    /\ UNCHANGED <<pc, bloomStrength, mouse, scrollY, time, uniforms,
                   pendingFrames, rendered, frame, frameCount, targetMouse,
                   targetScrollY, scrollEvents, pointerEvents, shaded>>

\* handleResize without its geometry.dispose() call.
handleResize_NoDispose(w, h, dpr) ==
    /\ pc = "running" /\ frame < MaxFrame
    /\ resizes < MaxResizes
    /\ resizes' = resizes + 1
    /\ innerWidth' = w
    /\ innerHeight' = h
    /\ devicePixelRatio' = dpr
    /\ cameraAspect' = RDiv(w * US, h)
    /\ rendererSize' = <<w, h>>
    /\ rendererPixelRatio' = Min(dpr, 2)
    /\ composerSize' = <<w, h>>
    /\ bloomSize' = <<w, h>>
    /\ disposed' = disposed
    /\ meshGeometry' = [b \in Bands |-> allocated + 1 + b]
    /\ geometryHeight' = [b \in Bands |-> calculate2pxHeight(h)]
    /\ allocated' = allocated + Cardinality(Bands)
    /\ UNCHANGED <<pc, bloomStrength, mouse, scrollY, time, uniforms,
                   pendingFrames, rendered, frame, frameCount, targetMouse,
                   targetScrollY, scrollEvents, pointerEvents, shaded>>

\* function handleResize(), run by the resize event after the window took its
\* new size (w, h) and device pixel ratio.
handleResize(w, h, dpr) ==
    /\ InputOpen
    /\ resizes < MaxResizes
    /\ resizes' = resizes + 1
    /\ innerWidth' = w
    /\ innerHeight' = h
    /\ devicePixelRatio' = dpr
    /\ cameraAspect' = Aspect(w, h)
    /\ rendererSize' = <<w, h>>
    /\ rendererPixelRatio' = resizePixelRatio(dpr)
    /\ composerSize' = <<w, h>>
    /\ bloomSize' = <<w, h>>
    /\ disposed' = disposed \cup {meshGeometry[b] : b \in Bands}
    /\ meshGeometry' = [b \in Bands |-> allocated + 1 + b]
    /\ geometryHeight' = [b \in Bands |-> calculate2pxHeight(h)]
    /\ allocated' = allocated + Cardinality(Bands)
    /\ UNCHANGED <<pc, frameVars, eventVars, targetMouse, targetScrollY, shaded>>

\* ------------------------------------------------------- animation loop
\* The uniforms animate() leaves on one band: old are the band's uniforms,
\* t, m and sY the clock, pointer and scroll offset already updated this frame.
bandUniforms(lineIndex, old, t, m, sY, vh, currentSection, interpolationFactor) ==
    LET lineConfig == waveBandLineConfig[lineIndex]
        interpolatedParams ==
            getInterpolatedParams(lineConfig, currentSection, interpolationFactor)
        targetVisibility == getSectionVisibility(lineConfig.sectionIndex, sY, vh)
    IN  [old EXCEPT
           !.uTime = t * scrollInfluence(sY),
           !.uSpeed = interpolatedParams.speed,
           !.uAmplitude = interpolatedParams.amplitude,
           !.uFrequency = interpolatedParams.frequency,
           !.uDirection = interpolatedParams.direction,
           !.uCurveType = interpolatedParams.curveType,
           !.uOpacity = interpolatedParams.opacity,
           !.uColorIntensity = interpolatedParams.colorIntensity,
           !.uMouse = m,
           !.uVisibility = visibilityStep(old.uVisibility, targetVisibility)]

\* The body of animate() after its requestAnimationFrame call, for a clock
\* delta of deltaTime ticks.
animateBody(deltaTime) ==
    \E newTime \in {time + deltaTime},
       newMouse \in {updateMouse(mouse, targetMouse)},
       newScrollY \in {updateScroll(scrollY, targetScrollY)} :
       \E currentSection \in {getCurrentSection(newScrollY, innerHeight)},
          interpolationFactor \in {getInterpolationFactor(newScrollY, innerHeight)} :
          /\ newTime <= MaxTime
          /\ time' = newTime
          /\ mouse' = newMouse
          /\ scrollY' = newScrollY
          /\ uniforms' = [b \in Bands |->
                            bandUniforms(b, uniforms[b], newTime, newMouse, newScrollY,
                                         innerHeight, currentSection, interpolationFactor)]
          /\ bloomStrength' = bloomStrengthByTime[newTime]
          /\ rendered' = [drawn |-> TRUE, viewport |-> <<innerWidth, innerHeight>>,
                          renderer |-> rendererSize, composer |-> composerSize,
                          bloom |-> bloomSize, aspect |-> cameraAspect]
          /\ scrollEvents' = << >>
          /\ pointerEvents' = << >>
          /\ UNCHANGED <<windowVars, surfaceVars, geometryVars, targetMouse,
                         targetScrollY, resizes, shaded>>

\* animate(), called by the last line of the script: the clock starts, so
\* its first delta is 0, and the first callback is scheduled.
startAnimation ==
    /\ pc = "load"
    /\ pc' = "running"
    /\ pendingFrames' = pendingFrames + 1
    /\ frame' = frame
    /\ frameCount' = (frameCount % FrameCycle) + 1
    /\ animateBody(0)

\* animate() as a frame callback that never calls requestAnimationFrame.
animate_NoReschedule(deltaTime) ==
    /\ pc = "running"
    /\ pendingFrames > 0
    /\ deltaTime = 0 \/ frame < MaxFrame
    /\ pc' = pc
    /\ pendingFrames' = pendingFrames - 1
    /\ frame' = Min(frame + 1, MaxFrame)
    /\ frameCount' = (frameCount % FrameCycle) + 1
    /\ animateBody(deltaTime)

\* animate(), run as an animation frame callback: it schedules its successor
\* and advances by the clock delta.
animate(deltaTime) ==
    /\ pc = "running"
    /\ pendingFrames > 0
    /\ deltaTime = 0 \/ frame < MaxFrame
    /\ pc' = pc
    /\ pendingFrames' = (pendingFrames - 1) + 1
    /\ frame' = Min(frame + 1, MaxFrame)
    /\ frameCount' = (frameCount % FrameCycle) + 1
    /\ animateBody(deltaTime)

\* The fragment shader's main() takes its colour from smoothGradient(vProgress).
shadeFragment(vProgress) ==
    /\ shaded' = [done |-> TRUE, vProgress |-> vProgress,
                  color |-> smoothGradient(vProgress)]
    /\ UNCHANGED <<pc, windowVars, surfaceVars, geometryVars, frameVars,
                   eventVars, targetMouse, targetScrollY, resizes>>

\* ------------------------------------------------------- specifications
\* One run of animate(): the script's own call, or a frame callback.
AnimateStep == startAnimation \/ \E deltaTime \in DeltaSamples : animate(deltaTime)

\* The page under frames, scroll events, resizes and a pointer that is moved
\* to the corner.
Next ==
    \/ startAnimation
    \/ \E deltaTime \in DeltaSamples : animate(deltaTime)
    \/ MouseMove(PointerCorner[1], PointerCorner[2])
    \/ \E windowScrollY \in ScrollSamples : Scroll(windowScrollY)
    \/ \E win \in WindowSamples : handleResize(win[1], win[2], win[3])

Spec == Init /\ [][Next]_vars

\* The page in the window it was opened in, under frames and every pointer
\* and scroll sample, for what is claimed of the events between two frames.
NextEvents ==
    \/ startAnimation
    \/ \E deltaTime \in DeltaSamples : animate(deltaTime)
    \/ \E p \in PointerSamples : MouseMove(p[1], p[2])
    \/ \E windowScrollY \in ScrollSamples : Scroll(windowScrollY)

SpecEvents == Init /\ [][NextEvents]_vars

\* The loop under scroll events alone, for what is claimed of every run in
\* which the frames keep coming.
NextScroll ==
    \/ startAnimation
    \/ \E deltaTime \in DeltaSamples : animate(deltaTime)
    \/ \E windowScrollY \in ScrollSamples : Scroll(windowScrollY)

\* requestAnimationFrame keeps delivering the callback animate() schedules.
SpecScrollLive == Init /\ [][NextScroll]_vars /\ WF_vars(AnimateStep)

\* The positions along a band at which the gradient is sampled.
GradientSteps == 60

ProgressSamples == {RDiv(i * US, GradientSteps) : i \in 0 .. GradientSteps}

NextShader == \E vProgress \in ProgressSamples : shadeFragment(vProgress)

SpecShader == Init /\ [][NextShader]_vars

\* ----------------------------------------------------------------- claims
\* waveBand.sectionIndex
bandSection(b) == allLineConfigs[b].sectionIndex

\* The visibility target animate() uses for band b in the frame that leaves
\* the smoothed scroll offset at sY.
TargetVisibilityOf(b, sY) == getSectionVisibility(bandSection(b), sY, innerHeight)

\* new is strictly closer to target than old, and on the same side of it.
StrictlyCloser(old, new, target) ==
    /\ Abs(target - new) < Abs(target - old)
    /\ (target - old) * (target - new) >= 0

\* new is no farther from target than old, and on the same side of it.
NotFarther(old, new, target) ==
    /\ Abs(target - new) <= Abs(target - old)
    /\ (target - old) * (target - new) >= 0

\* The increment (target - old) * num / 100 does not round to nothing.
IncrementSurvives(old, target, num) == 2 * Abs(target - old) * num >= 100

\* C1 as stated: in every run of animate(), each smoothed value (scroll, both
\* pointer coordinates, every band's uVisibility) that differs from its target
\* ends strictly closer to that target and on the same side of it.
C1_StrictEveryFrame ==
    [][AnimateStep =>
         /\ scrollY # targetScrollY => StrictlyCloser(scrollY, scrollY', targetScrollY)
         /\ mouse.x # targetMouse.x => StrictlyCloser(mouse.x, mouse'.x, targetMouse.x)
         /\ mouse.y # targetMouse.y => StrictlyCloser(mouse.y, mouse'.y, targetMouse.y)
         /\ \A b \in Bands :
               uniforms[b].uVisibility # TargetVisibilityOf(b, scrollY') =>
                  StrictlyCloser(uniforms[b].uVisibility, uniforms'[b].uVisibility,
                                 TargetVisibilityOf(b, scrollY'))]_vars

\* C1 amended: in every run of animate(), each smoothed value ends no farther
\* from its target and never on the other side of it, and it ends strictly
\* closer whenever the increment (target - value) * k does not round to nothing.
C1_MonotoneConvergence ==
    [][AnimateStep =>
         /\ NotFarther(scrollY, scrollY', targetScrollY)
         /\ IncrementSurvives(scrollY, targetScrollY, scrollSpeed) =>
               StrictlyCloser(scrollY, scrollY', targetScrollY)
         /\ NotFarther(mouse.x, mouse'.x, targetMouse.x)
         /\ IncrementSurvives(mouse.x, targetMouse.x, mouseLerp) =>
               StrictlyCloser(mouse.x, mouse'.x, targetMouse.x)
         /\ NotFarther(mouse.y, mouse'.y, targetMouse.y)
         /\ IncrementSurvives(mouse.y, targetMouse.y, mouseLerp) =>
               StrictlyCloser(mouse.y, mouse'.y, targetMouse.y)
         /\ \A b \in Bands :
               LET target == TargetVisibilityOf(b, scrollY')
               IN  /\ NotFarther(uniforms[b].uVisibility, uniforms'[b].uVisibility, target)
                   /\ IncrementSurvives(uniforms[b].uVisibility, target, visibilityLerp) =>
                         StrictlyCloser(uniforms[b].uVisibility,
                                        uniforms'[b].uVisibility, target)]_vars

\* C1 witness: all three smoothings are under way, each between its start and
\* its target.
C1_Witness ==
    /\ pc = "running"
    /\ scrollY # 0 /\ scrollY # targetScrollY
    /\ mouse.x # 0 /\ mouse.x # targetMouse.x
    /\ \E b \in Bands :
          /\ uniforms[b].uVisibility # US
          /\ uniforms[b].uVisibility # TargetVisibilityOf(b, scrollY)

\* The largest gap a visibility can keep to its target for good: the gaps whose
\* 0.08 increment rounds to nothing (the resolution of the arithmetic).
VisibilityResolution == (100 - 1) \div (2 * visibilityLerp)

\* getCurrentSection() as animate() would compute it in this state.
CurrentSection == getCurrentSection(scrollY, innerHeight)

\* C2: if from some frame on the smoothed scroll offset stays in section s,
\* then from some frame on every band of section s has uVisibility 1.0 and
\* every band two or more sections away has uVisibility 0.0, each up to the
\* resolution of the arithmetic.
C2_VisibilityConverges ==
    \A s \in 0 .. 2 :
       (<>[](pc = "running" /\ CurrentSection = s)) =>
          <>[](\A b \in Bands :
                  /\ bandSection(b) = s =>
                        Abs(US - uniforms[b].uVisibility) <= VisibilityResolution
                  /\ Abs(bandSection(b) - s) >= 2 =>
                        Abs(uniforms[b].uVisibility) <= VisibilityResolution)

\* C2 witness: the scroll offset has settled in the last section; a band of
\* that section has climbed back to 1.0 and a band of the first has faded to 0.0.
C2_Witness ==
    /\ CurrentSection = 2
    /\ scrollY = updateScroll(scrollY, targetScrollY)
    /\ uniforms[39].uVisibility < US
    /\ Abs(US - uniforms[39].uVisibility) <= VisibilityResolution
    /\ uniforms[0].uVisibility > 0
    /\ uniforms[0].uVisibility <= VisibilityResolution

\* The blend factor animate() would compute for the smoothed scroll offset sY.
FactorAt(sY) == getInterpolationFactor(sY, innerHeight)

\* The most the blend factor can change over a scroll distance of dist without
\* a jump: the ease has slope at most 3 and runs over 0.3 of a section, so the
\* factor has slope at most 10 per section height; 20 units allow for rounding.
NoJumpBound(dist) == (10 * US * dist) \div (innerHeight * SS) + 20

\* C3 as stated: the blend factor is 0 whenever section progress is at most
\* 0.7, and between two consecutive frames it changes no more than a function
\* of the scroll offset without a jump can change over the distance scrolled.
C3_FactorContinuous ==
    [][AnimateStep =>
         /\ 10 * JsMod(scrollY', innerHeight * SS) <= 7 * innerHeight * SS =>
               FactorAt(scrollY') = 0
         /\ Abs(FactorAt(scrollY') - FactorAt(scrollY)) <=
               NoJumpBound(Abs(scrollY' - scrollY))]_vars

\* C4 as stated: the gradient is exactly color1 at position 0 and exactly
\* color4 at position 1.
C4_GradientEndpoints ==
    shaded.done =>
       /\ shaded.vProgress = 0 => shaded.color = color1
       /\ shaded.vProgress = US => shaded.color = color4

\* 0.75 * a + 0.25 * (b + c) / 2 on one colour channel.
QuarterTowardMid(a, b, c) == RDiv(6 * a + b + c, 8)

\* C4 amended: the gradient is exactly color1 at position 0; at position 1 it
\* is color4 moved a quarter of the way to the midpoint of color2 and color3.
C4_GradientEndpointsBlended ==
    shaded.done =>
       /\ shaded.vProgress = 0 => shaded.color = color1
       /\ shaded.vProgress = US =>
             shaded.color = <<QuarterTowardMid(color4[1], color2[1], color3[1]),
                              QuarterTowardMid(color4[2], color2[2], color3[2]),
                              QuarterTowardMid(color4[3], color2[3], color3[3])>>

\* C4 witness: the gradient has been evaluated at position 1 and is not color4.
C4_Witness == shaded.done /\ shaded.vProgress = US /\ shaded.color # color4

\* C6: the camera aspect is width / height of the window, the renderer, the
\* composer and the bloom pass are sized to the window, and every frame drawn
\* was drawn with all of them at the size the window had at that moment.
C6_SurfacesFollowViewport ==
    /\ cameraAspect = RDiv(innerWidth * US, innerHeight)
    /\ rendererSize = <<innerWidth, innerHeight>>
    /\ composerSize = <<innerWidth, innerHeight>>
    /\ bloomSize = <<innerWidth, innerHeight>>
    /\ rendered.drawn =>
          /\ rendered.renderer = rendered.viewport
          /\ rendered.composer = rendered.viewport
          /\ rendered.bloom = rendered.viewport
          /\ rendered.aspect = RDiv(rendered.viewport[1] * US, rendered.viewport[2])

\* C6 witness: a resize to another size has been handled after a frame was
\* drawn at the old size, and the next frame is still to come.
C6_Witness ==
    /\ resizes > 0
    /\ rendered.drawn
    /\ rendered.viewport # <<innerWidth, innerHeight>>
    /\ rendererSize = <<innerWidth, innerHeight>>

\* C7 as stated: the current section index is floor(scrollY / innerHeight)
\* clamped to the section range, so it is always 0, 1 or 2.
C7_SectionInRange ==
    /\ CurrentSection \in 0 .. 2
    /\ CurrentSection = Max(0, Min(2, scrollY \div (innerHeight * SS)))

\* 1.0, 0.25 or 0.0 for a band 0, 1 or more sections from section cs.
VisibilityFor(b, cs) ==
    IF bandSection(b) = cs THEN US
    ELSE IF Abs(bandSection(b) - cs) = 1 THEN US \div 4
    ELSE 0

\* C8: in every run of animate(), for every band, the visibility target is
\* 1.0, 0.25 or 0.0 as the band's section is the current one, next to it, or
\* farther; uVisibility moves toward it by 0.08 of the gap, and does not land
\* on it from any gap wider than the arithmetic's last digit.
C8_VisibilityTargetAndStep ==
    [][AnimateStep =>
         \A b \in Bands :
            LET target == VisibilityFor(b, getCurrentSection(scrollY', innerHeight))
                gap == target - uniforms[b].uVisibility
            IN  /\ TargetVisibilityOf(b, scrollY') = target
                /\ uniforms'[b].uVisibility = uniforms[b].uVisibility + RDiv(gap * 8, 100)
                /\ Abs(gap) > 1 => uniforms'[b].uVisibility # target]_vars

\* C8 witness: a band next to the current section and a band two sections
\* away are both part way to their targets.
C8_Witness ==
    /\ CurrentSection = 2
    /\ uniforms[14].uVisibility \notin {US, US \div 4}
    /\ uniforms[0].uVisibility \notin {US, 0}

\* C9: every run of animate() replaces each smoothed input by
\* previous + (target - previous) * k, with k = 0.05 for both pointer
\* coordinates, 0.02 for the scroll offset and 0.08 for each band's visibility.
C9_OneLerpPerFrame ==
    [][AnimateStep =>
         /\ mouse'.x = mouse.x + RDiv((targetMouse.x - mouse.x) * 5, 100)
         /\ mouse'.y = mouse.y + RDiv((targetMouse.y - mouse.y) * 5, 100)
         /\ scrollY' = scrollY + RDiv((targetScrollY - scrollY) * 2, 100)
         /\ \A b \in Bands :
               uniforms'[b].uVisibility =
                  uniforms[b].uVisibility
                     + RDiv((TargetVisibilityOf(b, scrollY') - uniforms[b].uVisibility) * 8, 100)
         /\ \A b \in Bands : uniforms'[b].uMouse = mouse']_vars

\* C9 witness: pointer, scroll offset and a visibility have all moved and
\* none has arrived.
C9_Witness ==
    /\ frame > 0
    /\ mouse.x # 0 /\ mouse.y # 0 /\ mouse # targetMouse
    /\ scrollY > 0 /\ scrollY < targetScrollY
    /\ \E b \in Bands : uniforms[b].uVisibility < US

\* C10: every band's uVisibility and uOpacity lie in [0, 1].
C10_VisibilityOpacityInUnitInterval ==
    \A b \in Bands :
       /\ 0 <= uniforms[b].uVisibility /\ uniforms[b].uVisibility <= US
       /\ 0 <= uniforms[b].uOpacity /\ uniforms[b].uOpacity <= US

\* C10 witness: a resize has been handled, the pointer has moved, a band's
\* opacity is being blended toward the next section's and its visibility is
\* below 1.0.
C10_Witness ==
    /\ resizes > 0
    /\ mouse.x # 0
    /\ \E b \in Bands :
          /\ uniforms[b].uOpacity # allLineConfigs[b].opacity
          /\ uniforms[b].uVisibility < US

\* The position of band b within the configuration list of its own section.
elementIndex(b) ==
    IF b < 14 THEN b
    ELSE IF b < 14 + 13 THEN b - 14
    ELSE b - 14 - 13

\* The configuration list of the section after section cs.
NextListOf(cs) == IF cs + 1 = 1 THEN section2Lines ELSE section3Lines

\* The entry of the next section's list at band b's own position within its
\* section, wrapped by the length of that list.
HandoffConfig(b, cs) ==
    NextListOf(cs)[elementIndex(b) % Cardinality(DOMAIN NextListOf(cs))]

\* C11 as stated: in every run of animate() with a non-zero blend factor,
\* every band's speed, amplitude and frequency are blended toward the entry of
\* the next section's list at the band's own index within its section, wrapped
\* modulo the length of that list.
C11_HandoffByElementIndex ==
    [][AnimateStep =>
         (FactorAt(scrollY') # 0 =>
            \A b \in Bands :
               LET f == FactorAt(scrollY')
                   next == HandoffConfig(b, getCurrentSection(scrollY', innerHeight))
               IN  /\ uniforms'[b].uSpeed = Blend(allLineConfigs[b].speed, next.speed, f)
                   /\ uniforms'[b].uAmplitude =
                         Blend(allLineConfigs[b].amplitude, next.amplitude, f)
                   /\ uniforms'[b].uFrequency =
                         Blend(allLineConfigs[b].frequency, next.frequency, f))]_vars

\* C12: once animate() has been started exactly one frame callback is pending
\* in every state, whatever events were delivered; every run of animate()
\* leaves exactly one pending; and a further run of animate() is possible in
\* every state, so the loop never stops by itself.
C12_OnePendingFrame ==
    /\ [](pc = "running" => pendingFrames = 1 /\ ENABLED AnimateStep)
    /\ [][AnimateStep => pendingFrames' = 1]_vars

\* C12 witness: the loop has run frames and a resize, a scroll and a pointer
\* event have been delivered; one callback is pending.
C12_Witness ==
    /\ pc = "running"
    /\ frame > 0
    /\ resizes > 0
    /\ targetScrollY # 0
    /\ targetMouse.x # 0
    /\ pendingFrames = 1

\* C13: whenever a band's geometry is replaced the old one has been disposed
\* and the new one is newly allocated; in every state each band references
\* one geometry that was allocated and not disposed, no two bands share one,
\* and the geometries allocated and not disposed are as many as the bands.
C13_OneLiveGeometryPerBand ==
    /\ [](/\ \A b \in Bands :
               /\ meshGeometry[b] \in 1 .. allocated
               /\ meshGeometry[b] \notin disposed
          /\ \A b, c \in Bands : meshGeometry[b] = meshGeometry[c] => b = c
          /\ disposed \subseteq 1 .. allocated
          /\ allocated - Cardinality(disposed) = Cardinality(Bands))
    /\ [][\A b \in Bands :
             meshGeometry'[b] # meshGeometry[b] =>
                /\ meshGeometry[b] \in disposed'
                /\ meshGeometry'[b] \in (allocated + 1) .. allocated']_vars

\* C13 witness: a resize has replaced the geometries, the first ones are
\* disposed, and frames have run since.
C13_Witness ==
    /\ resizes > 0
    /\ frame > 0
    /\ disposed = 1 .. Cardinality(Bands)
    /\ meshGeometry[0] = Cardinality(Bands) + 1

\* The geometries constructed by runs of animate(): all those constructed,
\* less the first set and one set per resize.
BuiltInFrames == allocated - Cardinality(Bands) * (1 + resizes)

\* C14 as stated, for whatever constant n > 1 the cadence is: the first run
\* of animate() (frame 1, no multiple of n) rebuilds no geometry, and since
\* the frames keep coming and every n-th of them rebuilds the geometries,
\* runs of animate() that rebuild geometry occur again and again.
C14_RebuildOnCadence ==
    /\ [][(AnimateStep /\ frameCount = 0) => BuiltInFrames' = BuiltInFrames]_vars
    /\ []<><<AnimateStep /\ BuiltInFrames' > BuiltInFrames>>_vars

\* The configuration getInterpolatedParams blends band b toward in section cs.
BlendTargetOf(b, cs) == NextListOf(cs)[b % Cardinality(DOMAIN NextListOf(cs))]

\* x lies between a and b, ends included.
Between(x, a, b) == Min(a, b) <= x /\ x <= Max(a, b)

\* The most a parameter blended from own toward either next section's value
\* can change over a scroll distance of dist without a jump.
ParamJumpBound(own, next1, next2, dist) ==
    RDiv(Max(Abs(next1 - own), Abs(next2 - own)) * NoJumpBound(dist), US) + 2

\* C15 as stated: in every run of animate() in section 0 or 1 with a non-zero
\* blend factor, each band's speed, amplitude, frequency, direction, curveType
\* and opacity lie between the band's own value and the next configuration's,
\* and equal the next configuration's when the factor is 1; and from one frame
\* to the next (the viewport being the same) none of them jumps, the section
\* boundary included.
C15_HandoffReachesNext ==
    [][AnimateStep =>
         \A b \in Bands :
            LET cs == getCurrentSection(scrollY', innerHeight)
                f == FactorAt(scrollY')
                own == allLineConfigs[b]
                next == BlendTargetOf(b, cs)
                new == uniforms'[b]
                old == uniforms[b]
                dist == Abs(scrollY' - scrollY)
            IN  /\ (cs \in {0, 1} /\ f # 0) =>
                      /\ Between(new.uSpeed, own.speed, next.speed)
                      /\ Between(new.uAmplitude, own.amplitude, next.amplitude)
                      /\ Between(new.uFrequency, own.frequency, next.frequency)
                      /\ Between(new.uDirection, own.direction, next.direction)
                      /\ Between(new.uCurveType, own.curveType, next.curveType)
                      /\ Between(new.uOpacity, own.opacity, next.opacity)
                /\ (cs \in {0, 1} /\ f = US) =>
                      /\ new.uSpeed = next.speed
                      /\ new.uAmplitude = next.amplitude
                      /\ new.uFrequency = next.frequency
                      /\ new.uDirection = next.direction
                      /\ new.uCurveType = next.curveType
                      /\ new.uOpacity = next.opacity
                /\ (rendered.drawn /\ rendered.viewport[2] = innerHeight) =>
                      /\ Abs(new.uSpeed - old.uSpeed) <=
                            ParamJumpBound(own.speed, section2Lines[b % Len2].speed,
                                           section3Lines[b % Len3].speed, dist)
                      /\ Abs(new.uAmplitude - old.uAmplitude) <=
                            ParamJumpBound(own.amplitude, section2Lines[b % Len2].amplitude,
                                           section3Lines[b % Len3].amplitude, dist)
                      /\ Abs(new.uDirection - old.uDirection) <=
                            ParamJumpBound(own.direction, section2Lines[b % Len2].direction,
                                           section3Lines[b % Len3].direction, dist)
                      /\ Abs(new.uOpacity - old.uOpacity) <=
                            ParamJumpBound(own.opacity, section2Lines[b % Len2].opacity,
                                           section3Lines[b % Len3].opacity, dist)]_vars

\* A mousemove or a scroll event is delivered.
EventStep ==
    \/ \E p \in PointerSamples : MouseMove(p[1], p[2])
    \/ \E windowScrollY \in ScrollSamples : Scroll(windowScrollY)

\* The targetMouse the listener computes from the pointer sample p in the
\* window as it is.
PointerTarget(p) ==
    [x |-> RDiv(p[1] * US, innerWidth) * 2 - US,
     y |-> -(RDiv(p[2] * US, innerHeight) * 2) + US]

\* The last of the samples delivered.
LastOf(events) == events[Len(events)]

\* C16: (1) a mousemove or scroll event leaves the smoothed pointer, the
\* smoothed scroll offset, the clock and every band's uniforms as they were;
\* (2) after any number of events of one kind since the last frame the
\* target of that kind is the last sample delivered: targetScrollY the last
\* window.scrollY, targetMouse the last pointer position normalised;
\* (3) the next frame moves the smoothed scroll offset and the smoothed
\* pointer by their fraction of the way toward the last samples alone, so it
\* ends as if only they had been delivered.
C16_EventsOnlySetTargets ==
    /\ [][EventStep =>
            /\ mouse' = mouse
            /\ scrollY' = scrollY
            /\ time' = time
            /\ uniforms' = uniforms]_vars
    /\ [](scrollEvents # << >> => targetScrollY = LastOf(scrollEvents) * SS)
    /\ [](pointerEvents # << >> => targetMouse = PointerTarget(LastOf(pointerEvents)))
    /\ [][AnimateStep =>
            /\ scrollEvents # << >> =>
                  scrollY' = scrollY + RDiv((LastOf(scrollEvents) * SS - scrollY) * 2, 100)
            /\ pointerEvents # << >> =>
                  /\ mouse'.x = mouse.x
                        + RDiv((PointerTarget(LastOf(pointerEvents)).x - mouse.x) * 5, 100)
                  /\ mouse'.y = mouse.y
                        + RDiv((PointerTarget(LastOf(pointerEvents)).y - mouse.y) * 5, 100)]_vars

\* C16 witness: since the last frame two scroll events with different samples
\* and two mousemoves with different samples have been delivered; the targets
\* hold the last of each, and the smoothed values and the uniforms are still
\* those of the last frame.
C16_Witness ==
    /\ pc = "running"
    /\ Len(scrollEvents) = 2 /\ scrollEvents[1] # scrollEvents[2]
    /\ Len(pointerEvents) = 2 /\ pointerEvents[1] # pointerEvents[2]
    /\ scrollEvents[1] # 0
    /\ targetScrollY = scrollEvents[2] * SS
    /\ targetMouse = PointerTarget(pointerEvents[2])
    /\ targetMouse # PointerTarget(pointerEvents[1])
    /\ scrollY = 0
    /\ mouse = [x |-> 0, y |-> 0]
    /\ \A b \in Bands : uniforms[b].uMouse = mouse

\* C17: in every run of animate() with a non-zero blend factor the current
\* section is 0 or 1, the index looked up exists in the next section's list
\* for each of the 40 bands, and the bands are blended toward section2Lines in
\* section 0 and toward section3Lines in section 1; in the last section and
\* for a negative smoothed scroll offset the blend factor is 0.
C17_NextConfigDefined ==
    [][AnimateStep =>
         LET cs == getCurrentSection(scrollY', innerHeight)
             f == FactorAt(scrollY')
         IN  /\ f # 0 =>
                   /\ cs \in {0, 1}
                   /\ Cardinality(Bands) = 40
                   /\ \A b \in Bands :
                         LET list == IF cs = 0 THEN section2Lines ELSE section3Lines
                         IN  /\ b % Cardinality(DOMAIN list) \in DOMAIN list
                             /\ uniforms'[b].uDirection =
                                   Blend(allLineConfigs[b].direction,
                                         list[b % Cardinality(DOMAIN list)].direction, f)
                             /\ uniforms'[b].uSpeed =
                                   Blend(allLineConfigs[b].speed,
                                         list[b % Cardinality(DOMAIN list)].speed, f)
             /\ (cs >= 2 \/ scrollY' < 0) => f = 0]_vars

\* C17 witness: the last frame ran in section 1 with a non-zero blend factor
\* and blended the last band toward section3Lines.
C17_Witness ==
    /\ pc = "running"
    /\ rendered.drawn /\ rendered.viewport[2] = innerHeight
    /\ CurrentSection = 1
    /\ FactorAt(scrollY) # 0
    /\ uniforms[39].uSpeed # allLineConfigs[39].speed
    /\ uniforms[39].uSpeed =
          Blend(allLineConfigs[39].speed, section3Lines[39 % Len3].speed, FactorAt(scrollY))

\* C18 as stated: the shader clock uTime written to a band never decreases
\* from one run of animate() to the next.
C18_ShaderClockMonotone ==
    [][AnimateStep => \A b \in Bands : uniforms'[b].uTime >= uniforms[b].uTime]_vars

\* The renderer's pixel ratio is the one the renderer was constructed with for
\* the current device pixel ratio.
PixelRatioAsAtStartup == rendererPixelRatio = startupPixelRatio(devicePixelRatio)

\* C19 as stated: a resize event that changes neither the viewport nor the
\* device pixel ratio leaves the renderer's pixel ratio as it was, and the
\* ratio is always the startup function of the device pixel ratio.
C19_PixelRatioSameFunction ==
    /\ [][(resizes' # resizes /\ UNCHANGED windowVars) =>
             rendererPixelRatio' = rendererPixelRatio]_vars
    /\ []PixelRatioAsAtStartup

====
